---- MODULE Spec2Model ----
(***************************************************************************)
(* SeaFormer (seaformer-cls/seaformer.py): the shape algebra and the data  *)
(* flow of the classification network.  A tensor is a record of its shape  *)
(* (a sequence of dimensions, or Bad once an operation was applied to      *)
(* operands of incompatible shape) and of the expression that computed it. *)
(***************************************************************************)
EXTENDS Integers, Sequences, FiniteSets, TLC

VARIABLES
    mdv, mdret, mdpc,           \* _make_divisible: argument v, result, position
    unit, uin, uout, upc,       \* a residual unit, its input, its output, position
    blk, ax, ar, bx1, bout, apc, \* a Block, its input, the locals of its attention's
                                \* forward, x1 after each residual add, position
    dn, dr, dpc,                \* a Sea_Attention_Downsample, the locals of its forward
                                \* on the same input, position
    net,                        \* a constructed SeaFormer
    input,                      \* the shape of the tensor given to SeaFormer.forward
    x_fwd,                      \* the shape of x in SeaFormer.forward
    pc, i_fwd, n_fwd,           \* position in SeaFormer.forward: stage i (as in the
                                \* code, from 0), layer or block n within the stage
    trace,                      \* the stage of every step taken so far
    strides,                    \* (height, width) given to each stride-2 convolution
                                \* of the backbone so far
    pos_embed,                  \* one channel of a positional embedding parameter
    pe_x, pe_out, pe_pc,        \* one row of the embedding's input, of its output
                                \* (as numerators over 2N), position
    dp_x,                       \* drop_path's x: samples of elements
    drop_prob,                  \* drop_prob, in units of 1/ProbDen
    training,
    dp_out, dp_pc,              \* drop_path's result (numerators and denominator)
    gate_args,                  \* values given to SEModule.forward and h_sigmoid.forward
    se_out, se_pc,              \* SEModule.forward's gate and result, position
    hs_out, hs_pc,              \* h_sigmoid.forward's result, position
    fr_pos,                     \* the stored pos_embed parameter of one embedding
    fr_calls                    \* the forward calls running against it: position,
                                \* input row and locals of each

divVars == <<mdv, mdret, mdpc>>
unitVars == <<unit, uin, uout, upc>>
attnVars == <<blk, ax, ar, bx1, bout, apc, dn, dr, dpc>>
netVars == <<net, input, x_fwd, pc, i_fwd, n_fwd, trace, strides>>
posVars == <<pos_embed, pe_x, pe_out, pe_pc>>
dropVars == <<dp_x, drop_prob, training, dp_out, dp_pc>>
gateVars == <<gate_args, se_out, se_pc, hs_out, hs_pc>>
frameVars == <<fr_pos, fr_calls>>

vars == <<divVars, unitVars, attnVars, netVars, posVars, dropVars, gateVars, frameVars>>

\* the parts of the state a specification does not use stay as constructed
DivIdle == mdv = 0 /\ mdret = 0 /\ mdpc = "idle"

UnitIdle == unit = << >> /\ uin = << >> /\ uout = << >> /\ upc = "idle"

NetIdle ==
    /\ net = << >> /\ input = << >> /\ x_fwd = << >> /\ pc = "idle"
    /\ i_fwd = 0 /\ n_fwd = 0 /\ trace = << >> /\ strides = << >>

AttnIdle ==
    /\ blk = << >> /\ ax = << >> /\ ar = << >> /\ bx1 = << >> /\ bout = << >> /\ apc = "idle"
    /\ dn = << >> /\ dr = << >> /\ dpc = "idle"

PosIdle == pos_embed = << >> /\ pe_x = << >> /\ pe_out = << >> /\ pe_pc = "idle"

DropIdle ==
    dp_x = << >> /\ drop_prob = 0 /\ training = FALSE /\ dp_out = << >> /\ dp_pc = "idle"

GateIdle ==
    /\ gate_args = << >> /\ se_out = << >> /\ se_pc = "idle"
    /\ hs_out = << >> /\ hs_pc = "idle"

FrameIdle == fr_pos = << >> /\ fr_calls = << >>

-----------------------------------------------------------------------------
(* Bounds *)

MaxV == 340                     \* widths passed to _make_divisible: 0..MaxV
MaxUnitHW == 4                  \* height and width of a residual unit's input
MaxAttnHW == 5                  \* height and width of a Block's input
MaxK == 7                       \* network inputs are 32*k wide and high, k in 1..MaxK
MaxBatch == 2                   \* batch size of a network input
MaxStages == 4                  \* backbone stages of a generic SeaFormer
MaxN == 20                      \* axis length of a positional embedding's input
MaxDropBatch == 2               \* samples of drop_path's x
MaxDropElems == 2               \* elements per sample of drop_path's x
ProbDen == 4                    \* drop_prob and the random draws are multiples of 1/ProbDen
MaxGate == 10                   \* h_sigmoid inputs are k/2 for k in -MaxGate..MaxGate

-----------------------------------------------------------------------------
(* Integer helpers *)

Max(a, b) == IF a >= b THEN a ELSE b

\* math.ceil(n / 2) for a non-negative integer n
CeilHalf(n) == (n + 1) \div 2

-----------------------------------------------------------------------------
(* Tensors: shape and data-flow expression                                 *)

\* the shape of a tensor that no operation could produce (the framework
\* raises a shape error at this point)
Bad == << >>

Tensor(shape, expr) == [shape |-> shape, expr |-> expr]

\* the tensor handed to a module's forward
Input(shape) == Tensor(shape, <<"x">>)

RECURSIVE Prod(_)
Prod(s) == IF s = << >> THEN 1 ELSE Head(s) * Prod(Tail(s))

\* output length of a convolution / pooling window along one axis
ConvOut(n, ks, stride, pad, dilation) ==
    (n + 2 * pad - dilation * (ks - 1) - 1) \div stride + 1

\* nn.Conv2d(a, b, ks, stride, pad, dilation, groups) applied to t
Conv2d(name, t, a, b, ks, stride, pad, dilation, groups) ==
    LET s == t.shape
        ok == /\ Len(s) = 4
              /\ s[2] = a
              /\ a % groups = 0 /\ b % groups = 0
              /\ s[3] + 2 * pad >= dilation * (ks - 1) + 1
              /\ s[4] + 2 * pad >= dilation * (ks - 1) + 1
    IN  Tensor(IF ok THEN <<s[1], b, ConvOut(s[3], ks, stride, pad, dilation),
                                     ConvOut(s[4], ks, stride, pad, dilation)>>
                     ELSE Bad,
               <<name, t.expr>>)

\* a channel-wise normalisation with c features
BatchNorm2d(t, c) ==
    Tensor(IF Len(t.shape) = 4 /\ t.shape[2] = c THEN t.shape ELSE Bad, t.expr)

\* an element-wise unary operation (activation, gate, softmax, scaling)
Elementwise(name, t) == Tensor(t.shape, <<name, t.expr>>)

\* Conv2d_BN(a, b, ks, stride, pad, dilation, groups): the convolution 'c'
\* followed by the normalisation 'bn' (the optional 'act' keeps the shape)
Conv2d_BN(name, t, a, b, ks, stride, pad, dilation, groups) ==
    BatchNorm2d(Conv2d(name, t, a, b, ks, stride, pad, dilation, groups), b)

\* shape of an element-wise binary operation under broadcasting
BroadcastShape(s1, s2) ==
    IF /\ s1 # Bad /\ Len(s1) = Len(s2)
       /\ \A n \in 1..Len(s1) : s1[n] = s2[n] \/ s1[n] = 1 \/ s2[n] = 1
    THEN [n \in 1..Len(s1) |-> Max(s1[n], s2[n])]
    ELSE Bad

Add(a, b) == Tensor(BroadcastShape(a.shape, b.shape), <<"add", a.expr, b.expr>>)

Mul(a, b) == Tensor(BroadcastShape(a.shape, b.shape), <<"mul", a.expr, b.expr>>)

\* torch.cat([a, b, c], dim=1)
Cat3(a, b, c) ==
    LET ok == /\ Len(a.shape) = 4 /\ Len(b.shape) = 4 /\ Len(c.shape) = 4
              /\ \A n \in {1, 3, 4} : a.shape[n] = b.shape[n] /\ a.shape[n] = c.shape[n]
    IN  Tensor(IF ok THEN <<a.shape[1], a.shape[2] + b.shape[2] + c.shape[2],
                            a.shape[3], a.shape[4]>>
                     ELSE Bad,
               <<"cat", a.expr, b.expr, c.expr>>)

\* t.mean(-1) and t.mean(-2) of a 4-d tensor
MeanLast(t) ==
    Tensor(IF Len(t.shape) = 4 THEN <<t.shape[1], t.shape[2], t.shape[3]>> ELSE Bad,
           <<"mean_w", t.expr>>)

MeanSecondLast(t) ==
    Tensor(IF Len(t.shape) = 4 THEN <<t.shape[1], t.shape[2], t.shape[4]>> ELSE Bad,
           <<"mean_h", t.expr>>)

\* t.reshape(b, h, -1, n): the third dimension is inferred
ReshapeInfer3(t, b, h, n) ==
    LET total == Prod(t.shape)
        ok == t.shape # Bad /\ b * h * n >= 1 /\ total % (b * h * n) = 0
    IN  Tensor(IF ok THEN <<b, h, total \div (b * h * n), n>> ELSE Bad, t.expr)

\* t.reshape(target) with every dimension given
Reshape(t, target) ==
    Tensor(IF t.shape # Bad /\ Prod(t.shape) = Prod(target) THEN target ELSE Bad,
           t.expr)

\* t.permute(0, 1, 3, 2)
Permute0132(t) ==
    Tensor(IF Len(t.shape) = 4
             THEN <<t.shape[1], t.shape[2], t.shape[4], t.shape[3]>> ELSE Bad,
           t.expr)

\* torch.matmul of two 4-d tensors
Matmul(a, b) ==
    LET ok == /\ Len(a.shape) = 4 /\ Len(b.shape) = 4
              /\ a.shape[1] = b.shape[1] /\ a.shape[2] = b.shape[2]
              /\ a.shape[4] = b.shape[3]
    IN  Tensor(IF ok THEN <<a.shape[1], a.shape[2], a.shape[3], b.shape[4]>> ELSE Bad,
               <<"matmul", a.expr, b.expr>>)

\* F.interpolate(t, size=(h, w), mode='bilinear')
Interpolate2d(t, h, w) ==
    Tensor(IF Len(t.shape) = 4 /\ h >= 1 /\ w >= 1
             THEN <<t.shape[1], t.shape[2], h, w>> ELSE Bad,
           <<"interpolate", t.expr>>)

-----------------------------------------------------------------------------
(* _make_divisible                                                         *)

\* Line 24 and 26-27 with min_value given.  v is a non-negative integer, so
\* int(v + divisor / 2) = v + divisor \div 2, and new_v < 0.9 * v is
\* 10 * new_v < 9 * v (new_v and v are integers and the two sides never
\* come closer than 0.1 unless v = 0).
make_divisible_from(v, divisor, min_value) ==
    LET new_v == Max(min_value, ((v + divisor \div 2) \div divisor) * divisor)
    IN  IF 10 * new_v < 9 * v THEN new_v + divisor ELSE new_v

\* A rounder that forgets the 10% rule (lines 26-27 dropped).
make_divisible_NoBump(v, divisor) ==
    Max(divisor, ((v + divisor \div 2) \div divisor) * divisor)

\* A rounder whose 10% test points the wrong way.
make_divisible_InvertedTest(v, divisor) ==
    LET new_v == Max(divisor, ((v + divisor \div 2) \div divisor) * divisor)
    IN  IF 10 * new_v > 9 * v THEN new_v + divisor ELSE new_v

\* min_value omitted: lines 22-23 set it to divisor.
_make_divisible(v, divisor) == make_divisible_from(v, divisor, divisor)

-----------------------------------------------------------------------------
(* Residual units                                                          *)

\* nn.AdaptiveAvgPool2d(1) / nn.AdaptiveAvgPool2d((1, 1))
AdaptiveAvgPool2d(t) ==
    Tensor(IF Len(t.shape) = 4 THEN <<t.shape[1], t.shape[2], 1, 1>> ELSE Bad,
           <<"avg_pool", t.expr>>)

\* a shortcut condition that forgets the stride
use_res_connect_NoStride(stride, inp, oup) == inp = oup

\* self.use_res_connect (line 136) and self.if_shortcut (line 544)
use_res_connect(stride, inp, oup) == stride = 1 /\ inp = oup

\* InvertedResidual.__init__
InvertedResidual(inp, oup, ks, stride, expand_ratio) ==
    [kind |-> "InvertedResidual",
     inp |-> inp, oup |-> oup, ks |-> ks, stride |-> stride,
     expand_ratio |-> expand_ratio,
     hidden_dim |-> inp * expand_ratio,
     use_res_connect |-> use_res_connect(stride, inp, oup)]

\* self.conv of InvertedResidual: [pw, act,] dw, act, pw-linear
InvertedResidual_conv(m, x) ==
    LET h0 == IF m.expand_ratio # 1
                THEN Elementwise("act",
                       Conv2d_BN("pw", x, m.inp, m.hidden_dim, 1, 1, 0, 1, 1))
                ELSE x
        h1 == Elementwise("act",
                Conv2d_BN("dw", h0, m.hidden_dim, m.hidden_dim, m.ks, m.stride,
                          m.ks \div 2, 1, m.hidden_dim))
    IN  Conv2d_BN("pw_linear", h1, m.hidden_dim, m.oup, 1, 1, 0, 1, 1)

\* InvertedResidual.forward
InvertedResidual_forward(m, x) ==
    IF m.use_res_connect
      THEN Add(x, InvertedResidual_conv(m, x))
      ELSE InvertedResidual_conv(m, x)

\* SEModule.forward on channel channels, reduction 4
SEModule_forward(channel, x) ==
    LET identity == x
        x1 == AdaptiveAvgPool2d(x)
        x2 == Conv2d("conv1", x1, channel, channel \div 4, 1, 1, 0, 1, 1)
        x3 == Elementwise("relu", x2)
        x4 == Conv2d("conv2", x3, channel \div 4, channel, 1, 1, 0, 1, 1)
        x5 == Elementwise("hardsigmoid", x4)
    IN  Mul(identity, x5)

\* ResidualUnit.__init__ (dilation is 1 at its only construction site)
ResidualUnit(in_c, mid_c, out_c, filter_size, stride, use_se) ==
    [kind |-> "ResidualUnit",
     in_c |-> in_c, mid_c |-> mid_c, out_c |-> out_c,
     filter_size |-> filter_size, stride |-> stride,
     if_se |-> use_se,
     if_shortcut |-> use_res_connect(stride, in_c, out_c)]

\* ResidualUnit.forward up to and including linear_conv
ResidualUnit_transform(m, x) ==
    LET x1 == Conv2d_BN("expand_conv", x, m.in_c, m.mid_c, 1, 1, 0, 1, 1)
        x2 == Conv2d_BN("bottleneck_conv", x1, m.mid_c, m.mid_c, m.filter_size,
                        m.stride, (m.filter_size - 1) \div 2, 1, m.mid_c)
        x3 == IF m.if_se THEN SEModule_forward(m.mid_c, x2) ELSE x2
    IN  Conv2d_BN("linear_conv", x3, m.mid_c, m.out_c, 1, 1, 0, 1, 1)

\* ResidualUnit.forward
ResidualUnit_forward(m, x) ==
    LET identity == x
        y == ResidualUnit_transform(m, x)
    IN  IF m.if_shortcut THEN Add(identity, y) ELSE y

\* forward of either unit
Unit_forward(m, x) ==
    IF m.kind = "InvertedResidual" THEN InvertedResidual_forward(m, x)
                                   ELSE ResidualUnit_forward(m, x)

Unit_stride(m) == m.stride

Unit_in(m) == IF m.kind = "InvertedResidual" THEN m.inp ELSE m.in_c

Unit_out(m) == IF m.kind = "InvertedResidual" THEN m.oup ELSE m.out_c

-----------------------------------------------------------------------------
(* Squeeze-axial attention and the hybrid Block                            *)

\* stored length of every positional embedding (shape argument 16)
PosEmbedLen == 16

\* r * n rounded up to an integer
IntTimes_Ceil(r, n) == (r[1] * n + r[2] - 1) \div r[2]

\* int(r * n) for a non-negative ratio r = <<numerator, denominator>>
IntTimes(r, n) == (r[1] * n) \div r[2]

\* SqueezeAxialPositionalEmbedding(dim, 16).forward on x of shape (B, C, N):
\* the (1, dim, 16) parameter is interpolated to (1, dim, N) and added
SqueezeAxialPositionalEmbedding_forward(name, dim, x) ==
    LET param == Tensor(<<1, dim, PosEmbedLen>>, <<name>>)
        resampled == Tensor(IF Len(x.shape) = 3 /\ x.shape[3] >= 1
                              THEN <<1, dim, x.shape[3]>> ELSE Bad,
                            <<"interpolate_linear", param.expr>>)
    IN  Add(x, resampled)

\* Sea_Attention.__init__
Sea_Attention(dim, key_dim, num_heads, attn_ratio, talking_locality, stride_attention) ==
    [dim |-> dim,
     talking_locality |-> talking_locality,
     stride_attention |-> stride_attention,
     num_heads |-> num_heads,
     key_dim |-> key_dim,
     nh_kd |-> key_dim * num_heads,
     d |-> IntTimes(attn_ratio, key_dim),
     dh |-> IntTimes(attn_ratio, key_dim) * num_heads,
     attn_ratio |-> attn_ratio]

\* an upsample by a fixed factor of 2 instead of the explicit target size
restore_ScaleFactor2(xx, H_ori, W_ori) ==
    IF Len(xx.shape) = 4 THEN Interpolate2d(xx, 2 * xx.shape[3], 2 * xx.shape[4])
                         ELSE Interpolate2d(xx, H_ori, W_ori)

\* F.interpolate(xx, size=(H_ori, W_ori), mode='bilinear') of lines 438, 442
Sea_Attention_restore(xx, H_ori, W_ori) == Interpolate2d(xx, H_ori, W_ori)

\* a column result laid out along the height axis
column_shape_Transposed(B, dh, W) == <<B, dh, W, 1>>

\* the reshape target (B, self.dh, 1, W) of line 429
Sea_Attention_column_shape(B, dh, W) == <<B, dh, 1, W>>

\* activation() followed by Conv2d_BN(a, b): self.proj, self.proj_encode_row,
\* self.proj_encode_column
ActConvBN(name, t, a, b) ==
    Conv2d_BN(name, Elementwise("act", t), a, b, 1, 1, 0, 1, 1)

\* a plain tail that gates the detail signal by itself and adds it to the
\* projected attention output
plain_tail_AddDetail(m, xx, qkv, H_ori, W_ori) ==
    LET p == ActConvBN("proj", xx, m.dh, m.dim)
        gate == Elementwise("sigmoid", qkv)
        g == Add(p, Mul(gate, qkv))
    IN  [proj |-> p, gate |-> gate, product |-> g,
         out |-> IF m.stride_attention THEN Sea_Attention_restore(g, H_ori, W_ori) ELSE g]

\* a plain tail that upsamples the projection and the detail signal before
\* the gated multiply
plain_tail_UpsampleFirst(m, xx, qkv, H_ori, W_ori) ==
    LET p == ActConvBN("proj", xx, m.dh, m.dim)
        u == IF m.stride_attention THEN Sea_Attention_restore(p, H_ori, W_ori) ELSE p
        q2 == IF m.stride_attention THEN Sea_Attention_restore(qkv, H_ori, W_ori) ELSE qkv
        gate == Elementwise("sigmoid", u)
        g == Mul(gate, q2)
    IN  [proj |-> p, gate |-> gate, product |-> g, out |-> g]

\* lines 435-438, the branch without talking heads: xx = self.proj(xx);
\* xx = self.sigmoid(xx) * qkv; then the restoring upsample.  The record
\* holds xx after each statement; out is the value returned
Sea_Attention_plain_tail(m, xx, qkv, H_ori, W_ori) ==
    LET p == ActConvBN("proj", xx, m.dh, m.dim)
        gate == Elementwise("sigmoid", p)
        g == Mul(gate, qkv)
    IN  [proj |-> p, gate |-> gate, product |-> g,
         out |-> IF m.stride_attention THEN Sea_Attention_restore(g, H_ori, W_ori) ELSE g]

\* a talking-head tail that projects before it upsamples
talking_tail_ProjFirst(m, xx, v_local, H_ori, W_ori) ==
    LET l == Add(xx, v_local)
        p == ActConvBN("proj", l, m.dh, m.dim)
        r == IF m.stride_attention THEN Sea_Attention_restore(p, H_ori, W_ori) ELSE p
    IN  [sum |-> l, restored |-> r, out |-> r]

\* lines 440-443, the talking-head branch: xx = xx + v_local; the restoring
\* upsample; xx = self.proj(xx).  The record holds xx after each statement
Sea_Attention_talking_tail(m, xx, v_local, H_ori, W_ori) ==
    LET l == Add(xx, v_local)
        r == IF m.stride_attention THEN Sea_Attention_restore(l, H_ori, W_ori) ELSE l
    IN  [sum |-> l, restored |-> r, out |-> ActConvBN("proj", r, m.dh, m.dim)]

\* Sea_Attention.forward: the record of its locals; out is the return value
Sea_Attention_forward(m, x) ==
    LET H_ori == IF Len(x.shape) = 4 THEN x.shape[3] ELSE 0
        W_ori == IF Len(x.shape) = 4 THEN x.shape[4] ELSE 0
        xs == IF m.stride_attention
                THEN BatchNorm2d(Conv2d("stride_conv", x, m.dim, m.dim, 3, 2, 1, 1, m.dim),
                                 m.dim)
                ELSE x
        ok == Len(xs.shape) = 4
        B == IF ok THEN xs.shape[1] ELSE 0
        H == IF ok THEN xs.shape[3] ELSE 0
        W == IF ok THEN xs.shape[4] ELSE 0
        nh == m.num_heads
        cat_c == m.dh + 2 * m.nh_kd
        q == Conv2d_BN("to_q", xs, m.dim, m.nh_kd, 1, 1, 0, 1, 1)
        k == Conv2d_BN("to_k", xs, m.dim, m.nh_kd, 1, 1, 0, 1, 1)
        v == Conv2d_BN("to_v", xs, m.dim, m.dh, 1, 1, 0, 1, 1)
        \* detail enhance
        qkv == Conv2d_BN("pwconv",
                 Elementwise("act",
                   Conv2d_BN("dwconv", Cat3(q, k, v), cat_c, cat_c, 3, 1, 1, 1, cat_c)),
                 cat_c, m.dim, 1, 1, 0, 1, 1)
        v_local == BatchNorm2d(Conv2d("v_local", v, m.dh, m.dh, 3, 1, 1, 1, m.dh), m.dh)
        \* squeeze row
        qrow == Permute0132(ReshapeInfer3(
                  SqueezeAxialPositionalEmbedding_forward("pos_emb_rowq", m.nh_kd, MeanLast(q)),
                  B, nh, H))
        krow == ReshapeInfer3(
                  SqueezeAxialPositionalEmbedding_forward("pos_emb_rowk", m.nh_kd, MeanLast(k)),
                  B, nh, H)
        vrow == Permute0132(ReshapeInfer3(MeanLast(v), B, nh, H))
        attn_row0 == Elementwise("scale", Matmul(qrow, krow))
        attn_row == IF ~m.talking_locality
                      THEN Elementwise("softmax", attn_row0)
                      ELSE Conv2d("talking_head2",
                             Elementwise("softmax",
                               Conv2d("talking_head1", attn_row0, nh, nh, 1, 1, 0, 1, 1)),
                             nh, nh, 1, 1, 0, 1, 1)
        xx_row == ActConvBN("proj_encode_row",
                    Reshape(Permute0132(Matmul(attn_row, vrow)), <<B, m.dh, H, 1>>),
                    m.dh, m.dh)
        \* squeeze column
        qcolumn == Permute0132(ReshapeInfer3(
                     SqueezeAxialPositionalEmbedding_forward("pos_emb_columnq", m.nh_kd,
                                                             MeanSecondLast(q)),
                     B, nh, W))
        kcolumn == ReshapeInfer3(
                     SqueezeAxialPositionalEmbedding_forward("pos_emb_columnk", m.nh_kd,
                                                             MeanSecondLast(k)),
                     B, nh, W)
        vcolumn == Permute0132(ReshapeInfer3(MeanSecondLast(v), B, nh, W))
        attn_column0 == Elementwise("scale", Matmul(qcolumn, kcolumn))
        attn_column == IF ~m.talking_locality
                         THEN Elementwise("softmax", attn_column0)
                         ELSE Conv2d("talking_head4",
                                Elementwise("softmax",
                                  Conv2d("talking_head3", attn_column0, nh, nh, 1, 1, 0, 1, 1)),
                                nh, nh, 1, 1, 0, 1, 1)
        xx_column == ActConvBN("proj_encode_column",
                       Reshape(Permute0132(Matmul(attn_column, vcolumn)),
                               Sea_Attention_column_shape(B, m.dh, W)),
                       m.dh, m.dh)
        rowcol == Add(xx_row, xx_column)
        xx == Add(v, rowcol)
        detail == IF ~m.talking_locality THEN qkv ELSE v_local
        tail == IF ~m.talking_locality
                  THEN Sea_Attention_plain_tail(m, xx, qkv, H_ori, W_ori)
                  ELSE Sea_Attention_talking_tail(m, xx, v_local, H_ori, W_ori)
        out == tail.out
    IN  [H_ori |-> H_ori, W_ori |-> W_ori, x |-> xs, detail |-> detail, tail |-> tail,
         q |-> q, k |-> k, v |-> v,
         qrow |-> qrow, krow |-> krow, vrow |-> vrow, attn_row |-> attn_row,
         xx_row |-> xx_row,
         qcolumn |-> qcolumn, kcolumn |-> kcolumn, vcolumn |-> vcolumn,
         attn_column |-> attn_column, xx_column |-> xx_column,
         rowcol |-> rowcol, xx |-> xx, out |-> out]

\* nn.AvgPool2d(ks, stride, pad) applied to t (ceil_mode is False)
AvgPool2d(name, t, ks, stride, pad) ==
    LET s == t.shape
        ok == Len(s) = 4 /\ s[3] + 2 * pad >= ks /\ s[4] + 2 * pad >= ks
    IN  Tensor(IF ok THEN <<s[1], s[2], ConvOut(s[3], ks, stride, pad, 1),
                                        ConvOut(s[4], ks, stride, pad, 1)>>
                     ELSE Bad,
               <<name, t.expr>>)

\* a pooling branch with a 2x2 window
LGQuery_pool_Kernel2(x) == AvgPool2d("pool", x, 2, 2, 0)

\* self.pool = nn.AvgPool2d(1, 2, 0)
LGQuery_pool(x) == AvgPool2d("pool", x, 1, 2, 0)

\* LGQuery(in_dim, out_dim).forward: the record of its locals; q is returned
LGQuery_forward(in_dim, out_dim, x) ==
    LET local_q == Conv2d("local", x, in_dim, in_dim, 3, 2, 1, 1, in_dim)
        pool_q == LGQuery_pool(x)
        q0 == Add(local_q, pool_q)
        q == BatchNorm2d(Conv2d("proj", q0, in_dim, out_dim, 1, 1, 0, 1, 1), out_dim)
    IN  [local_q |-> local_q, pool_q |-> pool_q, sum |-> q0, q |-> q]

\* Sea_Attention_Downsample.__init__
Sea_Attention_Downsample(dim, key_dim, num_heads, attn_ratio) ==
    [dim |-> dim,
     num_heads |-> num_heads,
     key_dim |-> key_dim,
     nh_kd |-> key_dim * num_heads,
     d |-> IntTimes(attn_ratio, key_dim),
     dh |-> IntTimes(attn_ratio, key_dim) * num_heads,
     attn_ratio |-> attn_ratio]

\* Sea_Attention_Downsample.forward: the record of its locals; out is the
\* return value
Sea_Attention_Downsample_forward(m, x) ==
    LET ok == Len(x.shape) = 4
        B == IF ok THEN x.shape[1] ELSE 0
        H == IF ok THEN x.shape[3] ELSE 0
        W == IF ok THEN x.shape[4] ELSE 0
        H2 == CeilHalf(H)
        W2 == CeilHalf(W)
        nh == m.num_heads
        lg == LGQuery_forward(m.dim, m.nh_kd, x)
        q == lg.q
        k == Conv2d_BN("to_k", x, m.dim, m.nh_kd, 1, 1, 0, 1, 1)
        v == Conv2d_BN("to_v", x, m.dim, m.dh, 1, 1, 0, 1, 1)
        v_local == BatchNorm2d(Conv2d("v_local", v, m.dh, m.dh, 3, 2, 1, 1, m.dh), m.dh)
        \* squeeze row
        qrow == Permute0132(ReshapeInfer3(
                  SqueezeAxialPositionalEmbedding_forward("pos_emb_rowq", m.nh_kd, MeanLast(q)),
                  B, nh, H2))
        krow == ReshapeInfer3(
                  SqueezeAxialPositionalEmbedding_forward("pos_emb_rowk", m.nh_kd, MeanLast(k)),
                  B, nh, H)
        vrow == Permute0132(ReshapeInfer3(MeanLast(v), B, nh, H))
        attn_row == Elementwise("softmax", Elementwise("scale", Matmul(qrow, krow)))
        xx_row == ActConvBN("proj_encode_row",
                    Reshape(Permute0132(Matmul(attn_row, vrow)), <<B, m.dh, H2, 1>>),
                    m.dh, m.dh)
        \* squeeze column
        qcolumn == Permute0132(ReshapeInfer3(
                     SqueezeAxialPositionalEmbedding_forward("pos_emb_columnq", m.nh_kd,
                                                             MeanSecondLast(q)),
                     B, nh, W2))
        kcolumn == ReshapeInfer3(
                     SqueezeAxialPositionalEmbedding_forward("pos_emb_columnk", m.nh_kd,
                                                             MeanSecondLast(k)),
                     B, nh, W)
        vcolumn == Permute0132(ReshapeInfer3(MeanSecondLast(v), B, nh, W))
        attn_column == Elementwise("softmax", Elementwise("scale", Matmul(qcolumn, kcolumn)))
        xx_column == ActConvBN("proj_encode_column",
                       Reshape(Permute0132(Matmul(attn_column, vcolumn)),
                               <<B, m.dh, 1, W2>>),
                       m.dh, m.dh)
        xx == Add(Add(xx_row, xx_column), v_local)
        out == ActConvBN("proj", xx, m.dh, m.dim)
    IN  [H2 |-> H2, W2 |-> W2, lg |-> lg, q |-> q, k |-> k, v |-> v, v_local |-> v_local,
         qrow |-> qrow, krow |-> krow, vrow |-> vrow, attn_row |-> attn_row,
         xx_row |-> xx_row,
         qcolumn |-> qcolumn, kcolumn |-> kcolumn, vcolumn |-> vcolumn,
         attn_column |-> attn_column, xx_column |-> xx_column,
         xx |-> xx, out |-> out]

\* Mlp.forward (dropout keeps the shape)
Mlp_forward(in_features, hidden_features, x) ==
    LET x1 == Conv2d_BN("fc1", x, in_features, hidden_features, 1, 1, 0, 1, 1)
        x2 == Conv2d("dwconv", x1, hidden_features, hidden_features, 3, 1, 1, 1,
                     hidden_features)
        x3 == Elementwise("act", x2)
    IN  Conv2d_BN("fc2", x3, hidden_features, in_features, 1, 1, 0, 1, 1)

\* Block.__init__
Block(dim, key_dim, num_heads, mlp_ratio, attn_ratio, stride_attention, talking_locality) ==
    [dim |-> dim,
     attn |-> Sea_Attention(dim, key_dim, num_heads, attn_ratio,
                            talking_locality, stride_attention),
     mlp_hidden_dim |-> dim * mlp_ratio]

\* the two statements of Block.forward; in inference mode drop_path returns
\* its argument
Block_forward_attn(b, x1) == Add(x1, Sea_Attention_forward(b.attn, x1).out)

Block_forward_mlp(b, x1) == Add(x1, Mlp_forward(b.dim, b.mlp_hidden_dim, x1))

Block_forward(b, x1) == Block_forward_mlp(b, Block_forward_attn(b, x1))

-----------------------------------------------------------------------------
(* Backbone stages and the SeaFormer network                               *)

\* a stage that keeps feeding its first input width to every layer
next_inp_Stale(inp_channel, output_channel) == inp_channel

\* inp_channel = output_channel (line 190, line 606)
next_inp(inp_channel, output_channel) == output_channel

\* the layers built by the loop of StackedMV2Block.__init__ over rows
\* (k, t, c, s), width_mult = 1
RECURSIVE StackedMV2Block_layers(_, _)
StackedMV2Block_layers(cfgs, inp_channel) ==
    IF cfgs = << >> THEN << >>
    ELSE LET row == Head(cfgs)
             output_channel == _make_divisible(row[3] * 1, 8)
         IN  <<InvertedResidual(inp_channel, output_channel, row[1], row[4], row[2])>>
             \o StackedMV2Block_layers(Tail(cfgs), next_inp(inp_channel, output_channel))

\* the blocks built by the loop of StackedMV3Block.__init__ over rows
\* (k, exp, c, se, s), scale = 1 (the activation kind keeps every shape)
RECURSIVE StackedMV3Block_blocks(_, _)
StackedMV3Block_blocks(cfgs, inp_channel) ==
    IF cfgs = << >> THEN << >>
    ELSE LET row == Head(cfgs)
         IN  <<ResidualUnit(_make_divisible(inp_channel * 1, 8),
                            _make_divisible(1 * row[2], 8),
                            _make_divisible(1 * row[3], 8),
                            row[1], row[5], row[4])>>
             \o StackedMV3Block_blocks(Tail(cfgs),
                    next_inp(inp_channel, _make_divisible(1 * row[3], 8)))

\* StackedMV2Block.__init__ / StackedMV3Block.__init__ (asub is never passed)
StackedBlock(mv3, cfgs, stem, inp_channel) ==
    [stem |-> stem,
     stem_channel |-> IF mv3 THEN _make_divisible(inp_channel * 1, 8) ELSE inp_channel,
     layers |-> IF mv3 THEN StackedMV3Block_blocks(cfgs, inp_channel)
                       ELSE StackedMV2Block_layers(cfgs, inp_channel)]

\* a stem that keeps the resolution
stem_block_Stride1(x, c) ==
    Elementwise("act", Conv2d_BN("stem", x, 3, c, 3, 1, 1, 1, 1))

\* self.stem_block (lines 175-178) and self.conv (line 592):
\* Conv2d_BN(3, c, 3, 2, 1) and its activation
stem_block(x, c) ==
    Elementwise("act", Conv2d_BN("stem", x, 3, c, 3, 2, 1, 1, 1))

\* BasicLayer.__init__: block_num equal Blocks (they differ in drop_path only)
BasicLayer(block_num, embedding_dim, key_dim, num_heads, mlp_ratio, attn_ratio, talking_locality, stride_attention) ==
    [block_num |-> block_num,
     block |-> Block(embedding_dim, key_dim, num_heads, mlp_ratio, attn_ratio,
                     stride_attention, talking_locality)]

\* number of logits of self.linear
NumLogits == 1000

\* the default of the constructor's num_classes argument
DefaultNumClasses == 1000

\* a head with one logit per class
linear_out_features_NumClasses(num_classes) == num_classes

\* out_features of self.linear = nn.Linear(channels[-1], 1000); num_classes
\* is not used
linear_out_features(num_classes) == NumLogits

\* SeaFormer.__init__
SeaFormer(a) ==
    [name |-> a.name,
     num_classes |-> a.num_classes,
     cfgs |-> a.cfgs,
     channels |-> a.channels,
     depths |-> a.depths,
     emb_dims |-> a.emb_dims,
     smb |-> [s \in 1..Len(a.cfgs) |->
                StackedBlock(a.mv3, a.cfgs[s], s = 1, a.channels[s])],
     trans |-> [t \in 1..Len(a.depths) |->
                  BasicLayer(a.depths[t], a.emb_dims[t], a.key_dims[t], a.num_heads,
                             a.mlp_ratios[t], a.attn_ratios,
                             a.talking_locality, a.stride_attn)],
     linear |-> [in_features |-> a.channels[Len(a.channels)],
                 out_features |-> linear_out_features(a.num_classes)]]

\* the registered variants: the arguments each passes to SeaFormer
SeaFormer_T ==
    [name |-> "SeaFormer_T", mv3 |-> FALSE,
     cfgs |-> << <<<<3, 1, 16, 1>>, <<3, 4, 16, 2>>, <<3, 3, 16, 1>>>>,
                 <<<<5, 3, 32, 2>>, <<5, 3, 32, 1>>>>,
                 <<<<3, 3, 64, 2>>, <<3, 3, 64, 1>>>>,
                 <<<<5, 3, 128, 2>>>>,
                 <<<<3, 6, 160, 2>>>> >>,
     channels |-> <<16, 16, 32, 64, 128, 160>>,
     num_heads |-> 4, depths |-> <<2, 2>>, emb_dims |-> <<128, 160>>,
     key_dims |-> <<16, 24>>, attn_ratios |-> <<2, 1>>, mlp_ratios |-> <<2, 4>>,
     stride_attn |-> FALSE, talking_locality |-> FALSE,
     num_classes |-> DefaultNumClasses]

SeaFormer_S ==
    [name |-> "SeaFormer_S", mv3 |-> FALSE,
     cfgs |-> << <<<<3, 1, 16, 1>>, <<3, 4, 24, 2>>, <<3, 3, 24, 1>>>>,
                 <<<<5, 3, 48, 2>>, <<5, 3, 48, 1>>>>,
                 <<<<3, 3, 96, 2>>, <<3, 3, 96, 1>>>>,
                 <<<<5, 4, 160, 2>>>>,
                 <<<<3, 6, 192, 2>>>> >>,
     channels |-> <<16, 24, 48, 96, 160, 192>>,
     num_heads |-> 6, depths |-> <<3, 3>>, emb_dims |-> <<160, 192>>,
     key_dims |-> <<16, 24>>, attn_ratios |-> <<2, 1>>, mlp_ratios |-> <<2, 4>>,
     stride_attn |-> FALSE, talking_locality |-> FALSE,
     num_classes |-> DefaultNumClasses]

\* rows are (k, exp, c, se, s); "relu" / "hardswish" keep every shape
SeaFormer_MV3_Base ==
    [name |-> "SeaFormer_MV3_Base", mv3 |-> TRUE,
     cfgs |-> << <<<<3, 16, 16, TRUE, 1>>, <<3, 64, 32, FALSE, 2>>, <<3, 96, 32, FALSE, 1>>>>,
                 <<<<5, 96, 64, TRUE, 2>>, <<5, 240, 64, TRUE, 1>>>>,
                 <<<<5, 192, 128, TRUE, 2>>, <<5, 384, 128, TRUE, 1>>>>,
                 <<<<5, 512, 192, TRUE, 2>>>>,
                 <<<<5, 1152, 256, TRUE, 2>>>> >>,
     channels |-> <<16, 32, 64, 128, 192, 256>>,
     num_heads |-> 8, depths |-> <<4, 4>>, emb_dims |-> <<192, 256>>,
     key_dims |-> <<16, 24>>, attn_ratios |-> <<2, 1>>, mlp_ratios |-> <<2, 4>>,
     stride_attn |-> TRUE, talking_locality |-> FALSE,
     num_classes |-> DefaultNumClasses]

SeaFormer_B_MV3_4stage ==
    [name |-> "SeaFormer_B_MV3_4stage", mv3 |-> TRUE,
     cfgs |-> << <<<<3, 16, 16, TRUE, 1>>, <<3, 64, 32, FALSE, 2>>, <<3, 96, 32, FALSE, 1>>>>,
                 <<<<5, 128, 64, TRUE, 2>>, <<5, 240, 64, TRUE, 1>>>>,
                 <<<<5, 384, 128, TRUE, 2>>, <<5, 384, 128, TRUE, 1>>>>,
                 <<<<5, 768, 192, TRUE, 2>>, <<5, 768, 192, TRUE, 1>>>> >>,
     channels |-> <<16, 32, 64, 128, 192>>,
     num_heads |-> 8, depths |-> <<3, 3>>, emb_dims |-> <<128, 192>>,
     key_dims |-> <<16, 24>>, attn_ratios |-> <<2, 1>>, mlp_ratios |-> <<2, 4>>,
     stride_attn |-> TRUE, talking_locality |-> FALSE,
     num_classes |-> DefaultNumClasses]

SeaFormer_B ==
    [name |-> "SeaFormer_B", mv3 |-> FALSE,
     cfgs |-> << <<<<3, 1, 16, 1>>, <<3, 4, 32, 2>>, <<3, 3, 32, 1>>>>,
                 <<<<5, 3, 64, 2>>, <<5, 3, 64, 1>>>>,
                 <<<<3, 3, 128, 2>>, <<3, 3, 128, 1>>>>,
                 <<<<5, 4, 192, 2>>>>,
                 <<<<3, 6, 256, 2>>>> >>,
     channels |-> <<16, 32, 64, 128, 192, 256>>,
     num_heads |-> 8, depths |-> <<4, 4>>, emb_dims |-> <<192, 256>>,
     key_dims |-> <<16, 24>>, attn_ratios |-> <<2, 1>>, mlp_ratios |-> <<2, 4>>,
     stride_attn |-> FALSE, talking_locality |-> FALSE,
     num_classes |-> DefaultNumClasses]

SeaFormer_L ==
    [name |-> "SeaFormer_L", mv3 |-> FALSE,
     cfgs |-> << <<<<3, 3, 32, 1>>, <<3, 4, 64, 2>>, <<3, 4, 64, 1>>>>,
                 <<<<5, 4, 128, 2>>, <<5, 4, 128, 1>>>>,
                 <<<<3, 4, 192, 2>>, <<3, 4, 192, 1>>>>,
                 <<<<5, 4, 256, 2>>>>,
                 <<<<3, 6, 320, 2>>>> >>,
     channels |-> <<32, 64, 128, 192, 256, 320>>,
     num_heads |-> 8, depths |-> <<3, 3, 3>>, emb_dims |-> <<192, 256, 320>>,
     key_dims |-> <<16, 20, 24>>, attn_ratios |-> <<2, 1>>, mlp_ratios |-> <<2, 4, 6>>,
     stride_attn |-> FALSE, talking_locality |-> FALSE,
     num_classes |-> DefaultNumClasses]

Registered ==
    {SeaFormer_T, SeaFormer_S, SeaFormer_MV3_Base, SeaFormer_B_MV3_4stage,
     SeaFormer_B, SeaFormer_L}

\* the five variants the spec names
Named == {"SeaFormer_T", "SeaFormer_S", "SeaFormer_B", "SeaFormer_L", "SeaFormer_MV3_Base"}

\* SeaFormer built directly with S backbone stages of one strided layer and
\* T transformer stages of one block, all 8 channels wide
Generic(S, T) ==
    [name |-> "generic", mv3 |-> FALSE,
     cfgs |-> [s \in 1..S |-> << <<3, 2, 8, 2>> >>],
     channels |-> [s \in 1..(S + 1) |-> 8],
     num_heads |-> 2, depths |-> [t \in 1..T |-> 1], emb_dims |-> [t \in 1..T |-> 8],
     key_dims |-> [t \in 1..T |-> 2], attn_ratios |-> <<2, 1>>,
     mlp_ratios |-> [t \in 1..T |-> 2],
     stride_attn |-> FALSE, talking_locality |-> FALSE,
     num_classes |-> DefaultNumClasses]

\* a test that misses the first transformer stage
runs_trans_Strict(ii, num_smb_stage, num_trans_stage) ==
    num_trans_stage + ii > num_smb_stage

\* the test of line 696
runs_trans(ii, num_smb_stage, num_trans_stage) ==
    num_trans_stage + ii >= num_smb_stage

\* the index of line 697
trans_index(ii, num_smb_stage, num_trans_stage) ==
    ii + num_trans_stage - num_smb_stage + 1

\* self.avgpool(x).view(-1, x.shape[1])
avgpool_view(t) ==
    LET p == AdaptiveAvgPool2d(t)
    IN  Tensor(IF Len(t.shape) = 4 /\ Prod(p.shape) % t.shape[2] = 0
                 THEN <<Prod(p.shape) \div t.shape[2], t.shape[2]>> ELSE Bad,
               p.expr)

\* nn.Linear(in_features, out_features) applied to a 2-d tensor
Linear(l, t) ==
    Tensor(IF Len(t.shape) = 2 /\ t.shape[2] = l.in_features
             THEN <<t.shape[1], l.out_features>> ELSE Bad,
           <<"linear", t.expr>>)

-----------------------------------------------------------------------------
(* Values: positional-embedding resampling and drop_path                   *)

\* linear resampling with align_corners=True: output position dst reads the
\* source at dst * (L - 1) / (N - 1); numerators over 2N
interpolate_AlignCorners(stored, N) ==
    LET L == Len(stored)
    IN  [dst \in 1..N |->
           IF N = 1 THEN 2 * N * stored[1]
           ELSE LET num == (dst - 1) * (L - 1)
                    i0 == num \div (N - 1)
                    i1 == IF i0 < L - 1 THEN i0 + 1 ELSE i0
                    lam == num % (N - 1)
                IN  (2 * N * ((N - 1 - lam) * stored[i0 + 1] + lam * stored[i1 + 1]))
                      \div (N - 1)]

\* F.interpolate(self.pos_embed, size=(N), mode='linear', align_corners=False)
\* on one channel: output position dst (from 0) reads the source at
\* max(0, (L / N) * (dst + 0.5) - 0.5) = max(0, L*(2*dst + 1) - N) / (2N),
\* between i0 = floor of it and i1 = min(i0 + 1, L - 1).  The result is the
\* sequence of the numerators of the outputs over the denominator 2N.
interpolate_linear(stored, N) ==
    LET L == Len(stored)
    IN  [d \in 1..N |->
           LET dst == d - 1
               num == Max(0, L * (2 * dst + 1) - N)
               i0 == num \div (2 * N)
               i1 == IF i0 < L - 1 THEN i0 + 1 ELSE i0
               lam1 == num % (2 * N)
               lam0 == 2 * N - lam1
           IN  lam0 * stored[i0 + 1] + lam1 * stored[i1 + 1]]

\* SqueezeAxialPositionalEmbedding.forward on one row xrow of length N of one
\* channel: numerators over 2N of x + the resampled embedding
SqueezeAxialPositionalEmbedding_values(stored, xrow) ==
    LET N == Len(xrow)
        e == interpolate_linear(stored, N)
    IN  [d \in 1..N |-> 2 * N * xrow[d] + e[d]]

\* a random tensor with one entry per element
rand_shape_PerElement(B, E) == <<B, E>>

\* shape = (x.shape[0],) + (1,) * (x.ndim - 1) of line 42, x of shape (B, E)
rand_shape(B, E) == <<B, 1>>

\* drop_path(x, drop_prob, training) with the draws of torch.rand given as
\* rand (in units of 1/ProbDen, indexed over rand_shape).  The result is the
\* matrix of numerators and their common denominator.
drop_path(xx, p, train, rand) ==
    IF p = 0 \/ ~train
      THEN [num |-> xx, den |-> 1]
      ELSE LET keep_prob == ProbDen - p
               \* random_tensor = floor(keep_prob + rand)
               random_tensor == [c \in DOMAIN rand |-> (keep_prob + rand[c]) \div ProbDen]
               bc(b, e) == IF <<b, e>> \in DOMAIN rand THEN <<b, e>> ELSE <<b, 1>>
           IN  \* x.div(keep_prob) * random_tensor
               [num |-> [b \in DOMAIN xx |->
                           [e \in DOMAIN xx[b] |->
                              xx[b][e] * ProbDen * random_tensor[bc(b, e)]]],
                den |-> keep_prob]

-----------------------------------------------------------------------------
(* Values: the hard-sigmoid gates                                          *)

Min(a, b) == IF a <= b THEN a ELSE b

\* nn.ReLU6 on the value num / den: the numerator of the result over den
ReLU6(num, den) == Min(Max(num, 0), 6 * den)

\* a gate that is x / 6 + 1 / 2 everywhere
Hardsigmoid_Unclamped(num, den) == [num |-> num + 3 * den, den |-> 6 * den]

\* nn.Hardsigmoid on the value num / den: 0 for x <= -3, 1 for x >= 3 and
\* x / 6 + 1 / 2 between
Hardsigmoid(num, den) ==
    [num |-> IF num <= -3 * den THEN 0
             ELSE IF num >= 3 * den THEN 6 * den
             ELSE num + 3 * den,
     den |-> 6 * den]

\* h_sigmoid.forward: self.relu(x + 3) / 6 on the value num / den
h_sigmoid_forward(num, den) ==
    LET x3 == num + 3 * den          \* x + 3, over den
        r == ReLU6(x3, den)          \* self.relu, in place on x + 3
    IN  [num |-> r, den |-> 6 * den]

\* SEModule.forward on one channel holding the elements identity, with the
\* two 1x1 convolutions acting on that channel as w1 * . + b1 and
\* w2 * . + b2.  Values are numerators over 2 up to the gate.
SEModule_values(identity, w1, b1, w2, b2) ==
    LET avg == identity[1] + identity[2]        \* avg_pool of two elements, over 2
        c1 == w1 * avg + 2 * b1                 \* conv1
        r == Max(c1, 0)                         \* relu
        c2 == w2 * r + 2 * b2                   \* conv2
        g == Hardsigmoid(c2, 2)                 \* hardsigmoid
    IN  [pre |-> c2, gate |-> g,
         out |-> [e \in DOMAIN identity |-> identity[e] * g.num]]

-----------------------------------------------------------------------------
(* Specification Spec: SeaFormer.forward, one step per module applied      *)

InputSizes == {32 * k : k \in 1..MaxK}

\* values passed as num_classes: the default and two others
NumClassesArgs == {DefaultNumClasses, 10, 21841}

GenericArgs == {Generic(S, T) : S \in 1..MaxStages, T \in 0..MaxStages} 

Init ==
    /\ DivIdle /\ UnitIdle /\ AttnIdle /\ PosIdle /\ DropIdle /\ GateIdle /\ FrameIdle
    /\ \E a \in Registered \cup {g \in GenericArgs : Len(g.depths) <= Len(g.cfgs)},
          num_classes \in NumClassesArgs :
         net = SeaFormer([a EXCEPT !.num_classes = num_classes])
    /\ \E b \in 1..MaxBatch, h \in InputSizes, w \in InputSizes :
         input = <<b, 3, h, w>>
    /\ x_fwd = input
    /\ pc = "stem"
    /\ i_fwd = 0 /\ n_fwd = 0
    /\ trace = << >>
    /\ strides = << >>

num_smb_stage == Len(net.cfgs)

num_trans_stage == Len(net.depths)

\* what follows the last layer or block of a stage: the transformer stage
\* of lines 696-698, the next iteration of the loop, or line 700
AfterSmb ==
    IF runs_trans(i_fwd, num_smb_stage, num_trans_stage)
      THEN pc' = "trans" /\ i_fwd' = i_fwd /\ n_fwd' = 0
      ELSE IF i_fwd + 1 < num_smb_stage
             THEN pc' = "layer" /\ i_fwd' = i_fwd + 1 /\ n_fwd' = 0
             ELSE pc' = "avgpool" /\ i_fwd' = i_fwd /\ n_fwd' = 0

AfterTrans ==
    IF i_fwd + 1 < num_smb_stage
      THEN pc' = "layer" /\ i_fwd' = i_fwd + 1 /\ n_fwd' = 0
      ELSE pc' = "avgpool" /\ i_fwd' = i_fwd /\ n_fwd' = 0

\* smb1's stem (lines 204-205, 609-610)
StemForward ==
    /\ pc = "stem"
    /\ net.smb[1].stem
    /\ x_fwd' = stem_block(Input(x_fwd), net.smb[1].stem_channel).shape
    /\ strides' = Append(strides, <<x_fwd[3], x_fwd[4]>>)
    /\ trace' = Append(trace, <<"smb", 1>>)
    /\ pc' = "layer" /\ i_fwd' = 0 /\ n_fwd' = 0
    /\ UNCHANGED <<net, input, divVars, unitVars, attnVars, posVars, dropVars, gateVars, frameVars>>

\* one layer of smb(i+1) (lines 206-208, 612-613)
LayerForward ==
    /\ pc = "layer"
    /\ LET layers == net.smb[i_fwd + 1].layers
           layer == layers[n_fwd + 1]
       IN  /\ x_fwd' = Unit_forward(layer, Input(x_fwd)).shape
           /\ strides' = IF Unit_stride(layer) = 2 /\ Len(x_fwd) = 4
                           THEN Append(strides, <<x_fwd[3], x_fwd[4]>>)
                           ELSE strides
           /\ trace' = Append(trace, <<"smb", i_fwd + 1>>)
           /\ IF n_fwd + 1 < Len(layers)
                THEN pc' = "layer" /\ i_fwd' = i_fwd /\ n_fwd' = n_fwd + 1
                ELSE AfterSmb
    /\ UNCHANGED <<net, input, divVars, unitVars, attnVars, posVars, dropVars, gateVars, frameVars>>

\* one block of the transformer stage run after smb(i+1) (BasicLayer.forward)
BlockForward ==
    /\ pc = "trans"
    /\ LET j == trans_index(i_fwd, num_smb_stage, num_trans_stage)
           layer == net.trans[j]
       IN  /\ x_fwd' = Block_forward(layer.block, Input(x_fwd)).shape
           /\ trace' = Append(trace, <<"trans", j>>)
           /\ IF n_fwd + 1 < layer.block_num
                THEN pc' = "trans" /\ i_fwd' = i_fwd /\ n_fwd' = n_fwd + 1
                ELSE AfterTrans
    /\ UNCHANGED <<net, input, strides, divVars, unitVars, attnVars, posVars, dropVars, gateVars, frameVars>>

\* line 700
AvgPool ==
    /\ pc = "avgpool"
    /\ x_fwd' = avgpool_view(Input(x_fwd)).shape
    /\ trace' = Append(trace, <<"avgpool", 0>>)
    /\ pc' = "linear"
    /\ UNCHANGED <<net, input, i_fwd, n_fwd, strides, divVars, unitVars, attnVars, posVars, dropVars, gateVars, frameVars>>

\* lines 701-702
LinearHead ==
    /\ pc = "linear"
    /\ x_fwd' = Linear(net.linear, Input(x_fwd)).shape
    /\ trace' = Append(trace, <<"linear", 0>>)
    /\ pc' = "done"
    /\ UNCHANGED <<net, input, i_fwd, n_fwd, strides, divVars, unitVars, attnVars, posVars, dropVars, gateVars, frameVars>>

Next == StemForward \/ LayerForward \/ BlockForward \/ AvgPool \/ LinearHead

Spec == Init /\ [][Next]_vars

\* the input of the repository's own end-to-end run: torch.rand((1, 3, 224, 224))
ImageSize == 224

RegisteredNames == {a.name : a \in Registered}

\* C1: for each of the five named variants, forward on a (1, 3, 224, 224)
\* input passes every stage, the pool and the head without a shape mismatch
\* and returns a (1, 1000) tensor.
C1_EndToEnd ==
    (pc # "idle" /\ net.name \in Named /\ input = <<1, 3, ImageSize, ImageSize>>) =>
        /\ x_fwd # Bad
        /\ pc \in {"layer", "trans", "avgpool"} => Len(x_fwd) = 4 /\ x_fwd[1] = 1
        /\ pc = "done" => x_fwd = <<1, NumLogits>>

\* the strided-attention MobileNetV3 variant returned its logits
C1_Witness ==
    /\ pc = "done" /\ net.name = "SeaFormer_MV3_Base"
    /\ input = <<1, 3, ImageSize, ImageSize>>
    /\ x_fwd = <<1, NumLogits>>
    /\ Len(trace) = 20

Repeat(e, cnt) == [m \in 1..cnt |-> e]

\* the steps of backbone stage k and of transformer stage j
SmbSteps(k) == Len(net.smb[k].layers) + (IF k = 1 THEN 1 ELSE 0)

TransSteps(j) == net.trans[j].block_num

\* the order the claim gives: smb1..smbS in index order, trans_j right after
\* smb_(S-T+j), then the pool and the head
RECURSIVE ExpectedFrom(_)
ExpectedFrom(k) ==
    LET S == Len(net.cfgs)
        T == Len(net.depths)
    IN  IF k > S THEN << <<"avgpool", 0>>, <<"linear", 0>> >>
        ELSE Repeat(<<"smb", k>>, SmbSteps(k))
             \o (IF k > S - T THEN Repeat(<<"trans", k - (S - T)>>, TransSteps(k - (S - T)))
                              ELSE << >>)
             \o ExpectedFrom(k + 1)

IsPrefix(p, q) == Len(p) <= Len(q) /\ SubSeq(q, 1, Len(p)) = p

\* C2: with S backbone and T <= S transformer stages, smb1..smbS run in index
\* order, each once; trans_j runs once, right after smb_(S-T+j) and before
\* the next backbone stage; no transformer stage follows any of the first
\* S-T backbone stages; the pool and the head run after all stages.
C2_StageOrder ==
    (pc # "idle" /\ Len(net.depths) <= Len(net.cfgs)) =>
        /\ IsPrefix(trace, ExpectedFrom(1))
        /\ pc = "done" => trace = ExpectedFrom(1)

\* three transformer stages interleaved with the last three of five stages
C2_Witness ==
    /\ pc = "done" /\ net.name = "SeaFormer_L"
    /\ trace = ExpectedFrom(1)
    /\ \E m \in 1..(Len(trace) - 1) : trace[m] = <<"smb", 3>> /\ trace[m + 1] = <<"trans", 1>>
    /\ \E m \in 1..(Len(trace) - 1) : trace[m] = <<"trans", 1>> /\ trace[m + 1] = <<"smb", 4>>

\* output width of backbone stage k: that of its last layer
StageOut(k) == Unit_out(net.smb[k].layers[Len(net.smb[k].layers)])

\* C5: for every registered variant, channels[i] is the rounded output width
\* of the previous stage (of the stem for the first), emb_dims[j] is the
\* output width of the backbone stage trans_j follows, and the classifier's
\* input width channels[-1] is the output width of the last stage; the
\* tensor crossing each boundary has that width.
C5_ChannelChain ==
    (pc # "idle" /\ net.name \in RegisteredNames) =>
        LET S == Len(net.cfgs)
            T == Len(net.depths)
        IN  /\ net.channels[1] = net.smb[1].stem_channel
            /\ \A k \in 1..S : StageOut(k) % 8 = 0 /\ StageOut(k) = _make_divisible(StageOut(k), 8)
            /\ \A k \in 2..S : net.channels[k] = StageOut(k - 1)
            /\ \A j \in 1..T : net.emb_dims[j] = StageOut(S - T + j)
            /\ net.linear.in_features = net.channels[Len(net.channels)]
            /\ net.linear.in_features = StageOut(S)
            /\ (pc = "layer" /\ n_fwd = 0) =>
                   Len(x_fwd) = 4 /\ x_fwd[2] = net.channels[i_fwd + 1]
            /\ (pc = "trans" /\ n_fwd = 0) =>
                   Len(x_fwd) = 4 /\ x_fwd[2] = net.emb_dims[i_fwd + T - S + 1]
            /\ pc = "avgpool" => Len(x_fwd) = 4 /\ x_fwd[2] = net.channels[Len(net.channels)]

\* the four-stage variant reached its second transformer stage
C5_Witness ==
    /\ pc = "trans" /\ n_fwd = 0 /\ net.name = "SeaFormer_B_MV3_4stage"
    /\ i_fwd = 3 /\ x_fwd[2] = 192 /\ net.emb_dims[2] = 192

RECURSIVE Pow2(_)
Pow2(k) == IF k = 0 THEN 1 ELSE 2 * Pow2(k - 1)

\* C6 (as stated): for an input with height and width divisible by 32 the
\* five-stage network applies exactly five stride-2 reductions, each to an
\* even dimension, and 224 arrives at 7 at the final resolution.
C6_AsStated ==
    (pc = "avgpool" /\ net.name \in Named /\ Len(net.cfgs) = 5) =>
        /\ Len(strides) = 5
        /\ \A m \in 1..Len(strides) : strides[m][1] % 2 = 0 /\ strides[m][2] % 2 = 0
        /\ input[3] = ImageSize => x_fwd[3] = 7

\* C6 (amended): the backbone of a five-stage variant applies six stride-2
\* reductions (the stem and one layer per stage); on an input divisible by
\* 32 the first five meet an even dimension and halve it exactly, down to
\* H/32, and the sixth turns H/32 into ceil(H/64); 224 is 7 after five
\* reductions and 4 at the final resolution.
C6_SixReductions ==
    (pc = "avgpool" /\ net.name \in Named /\ Len(net.cfgs) = 5) =>
        /\ Len(strides) = 6
        /\ \A m \in 1..5 :
             /\ strides[m] = <<input[3] \div Pow2(m - 1), input[4] \div Pow2(m - 1)>>
             /\ strides[m][1] % 2 = 0 /\ strides[m][2] % 2 = 0
        /\ strides[6] = <<input[3] \div 32, input[4] \div 32>>
        /\ Len(x_fwd) = 4
        /\ x_fwd[3] = CeilHalf(input[3] \div 32) /\ x_fwd[4] = CeilHalf(input[4] \div 32)
        /\ input[3] = ImageSize => strides[6][1] = 7 /\ x_fwd[3] = 4

\* a 224 x 224 input has passed all five stages of a five-stage variant
C6_Witness ==
    /\ pc = "avgpool" /\ net.name = "SeaFormer_T"
    /\ input[3] = ImageSize /\ input[4] = ImageSize
    /\ Len(strides) = 6 /\ strides[6] = <<7, 7>>
    /\ x_fwd[3] = 4 /\ x_fwd[4] = 4

-----------------------------------------------------------------------------
(* Specification SpecDiv: _make_divisible(v, 8) on every width 0..MaxV     *)

DivInit ==
    /\ mdv \in 0..MaxV
    /\ mdret = 0
    /\ mdpc = "call"
    /\ UnitIdle /\ AttnIdle /\ NetIdle /\ PosIdle /\ DropIdle /\ GateIdle /\ FrameIdle

DivCall ==
    /\ mdpc = "call"
    /\ mdret' = _make_divisible(mdv, 8)
    /\ mdpc' = "ret"
    /\ mdv' = mdv
    /\ UNCHANGED <<unitVars, attnVars, netVars, posVars, dropVars, gateVars, frameVars>>

SpecDiv == DivInit /\ [][DivCall]_vars

\* v rounded to the nearest multiple of 8, ties up
RoundNearest8(v) == CHOOSE m \in {8 * k : k \in 0..(v \div 8 + 1)} :
    /\ 2 * (m - v) <= 8 /\ 2 * (v - m) < 8

\* C4 (as stated): for every non-negative integer v the result is a multiple
\* of 8, at least 8 and at least 0.9*v, and it is v rounded to the nearest
\* multiple of 8 (ties up), raised by one step of 8 exactly when the rounded
\* value is below 0.9*v.
C4_AsStated ==
    mdpc = "ret" =>
        /\ mdret % 8 = 0 /\ mdret >= 8 /\ 10 * mdret >= 9 * mdv
        /\ mdret = IF 10 * RoundNearest8(mdv) < 9 * mdv
                     THEN RoundNearest8(mdv) + 8 ELSE RoundNearest8(mdv)

\* C4 (amended): the result is a multiple of 8, at least 8 and at least
\* 0.9*v; it is the larger of 8 and v rounded to the nearest multiple of 8
\* (ties up), raised by one step of 8 exactly when that value is below
\* 0.9*v; _make_divisible(13, 8) = 16 and _make_divisible(7, 8) = 8.
C4_MakeDivisible ==
    mdpc = "ret" =>
        /\ mdret % 8 = 0 /\ mdret >= 8 /\ 10 * mdret >= 9 * mdv
        /\ LET r == Max(8, RoundNearest8(mdv))
           IN  mdret = IF 10 * r < 9 * mdv THEN r + 8 ELSE r
        /\ (mdv = 13 => mdret = 16)
        /\ (mdv = 7 => mdret = 8)

\* a width whose nearest multiple of 8 lies more than 10% below it has been
\* rounded and raised by one step
C4_Witness == mdpc = "ret" /\ mdv = 19 /\ mdret = 24

-----------------------------------------------------------------------------
(* Specification SpecUnit: one residual unit applied to one input          *)

UnitChannels == {8, 16}

UnitInit ==
    /\ DivIdle /\ AttnIdle /\ NetIdle /\ PosIdle /\ DropIdle /\ GateIdle /\ FrameIdle
    /\ \E inp \in UnitChannels, oup \in UnitChannels, ks \in {3, 5},
          stride \in {1, 2}, t \in {1, 3}, se \in BOOLEAN :
         unit \in {InvertedResidual(inp, oup, ks, stride, t),
                   ResidualUnit(inp, inp * t, oup, ks, stride, se)}
    /\ \E b \in 1..2, h \in 1..MaxUnitHW, w \in 1..MaxUnitHW :
         uin = Input(<<b, Unit_in(unit), h, w>>)
    /\ uout = << >>
    /\ upc = "call"

InvertedResidualForward ==
    /\ upc = "call" /\ unit.kind = "InvertedResidual"
    /\ uout' = InvertedResidual_forward(unit, uin)
    /\ upc' = "ret"
    /\ UNCHANGED <<unit, uin, divVars, attnVars, netVars, posVars, dropVars, gateVars, frameVars>>

ResidualUnitForward ==
    /\ upc = "call" /\ unit.kind = "ResidualUnit"
    /\ uout' = ResidualUnit_forward(unit, uin)
    /\ upc' = "ret"
    /\ UNCHANGED <<unit, uin, divVars, attnVars, netVars, posVars, dropVars, gateVars, frameVars>>

UnitNext == InvertedResidualForward \/ ResidualUnitForward

SpecUnit == UnitInit /\ [][UnitNext]_vars

\* what the unit computes from its input before any shortcut
Unit_transform(m, x) ==
    IF m.kind = "InvertedResidual" THEN InvertedResidual_conv(m, x)
                                   ELSE ResidualUnit_transform(m, x)

\* C3: in both residual units the shortcut add is applied iff stride = 1 and
\* input channels = output channels: then forward returns
\* input + transform(input) (a legal add), otherwise transform(input) alone.
C3_ShortcutIff ==
    upc = "ret" =>
        LET cond == Unit_stride(unit) = 1 /\ Unit_in(unit) = Unit_out(unit)
            f == Unit_transform(unit, uin)
        IN  /\ uout.shape # Bad
            /\ (uout.expr[1] = "add") <=> cond
            /\ cond => uout = Add(uin, f)
            /\ ~cond => uout = f

\* both branches happen, in both units
C3_Witness ==
    /\ upc = "ret" /\ unit.kind = "ResidualUnit" /\ unit.stride = 1
    /\ unit.in_c = unit.out_c /\ uout.expr[1] = "add"
    /\ uout.shape = uin.shape /\ uin.shape[3] = 3

-----------------------------------------------------------------------------
(* Specification SpecAttn: Block.forward on one input, statement by        *)
(* statement: the attention, its residual add, the MLP and its residual add *)

AttnDims == {8, 12}
AttnKeyDims == {2, 3}
AttnHeads == {1, 2}
AttnRatios == {<<1, 2>>, <<1, 1>>, <<2, 1>>}

AttnInit ==
    /\ DivIdle /\ UnitIdle /\ NetIdle /\ PosIdle /\ DropIdle /\ GateIdle /\ FrameIdle
    /\ \E dim \in AttnDims, key_dim \in AttnKeyDims, num_heads \in AttnHeads,
          attn_ratio \in AttnRatios, st \in BOOLEAN, tl \in BOOLEAN :
         blk = Block(dim, key_dim, num_heads, 2, attn_ratio, st, tl)
    /\ \E b \in 1..2, h \in 1..MaxAttnHW, w \in 1..MaxAttnHW :
         ax = Input(<<b, blk.dim, h, w>>)
    /\ ar = << >> /\ bx1 = << >> /\ bout = << >>
    /\ apc = "attn"
    /\ dn = Sea_Attention_Downsample(blk.dim, blk.attn.key_dim, blk.attn.num_heads,
                                     blk.attn.attn_ratio)
    /\ dr = << >>
    /\ dpc = "call"

\* self.attn(x1)
AttnForward ==
    /\ apc = "attn"
    /\ ar' = Sea_Attention_forward(blk.attn, ax)
    /\ apc' = "add"
    /\ UNCHANGED <<blk, ax, bx1, bout, dn, dr, dpc, divVars, unitVars, netVars, posVars, dropVars, gateVars, frameVars>>

\* x1 = x1 + self.drop_path(self.attn(x1))
AttnResidual ==
    /\ apc = "add"
    /\ bx1' = Add(ax, ar.out)
    /\ apc' = "mlp"
    /\ UNCHANGED <<blk, ax, ar, bout, dn, dr, dpc, divVars, unitVars, netVars, posVars, dropVars, gateVars, frameVars>>

\* x1 = x1 + self.drop_path(self.mlp(x1)); return x1
MlpResidual ==
    /\ apc = "mlp"
    /\ bout' = Block_forward_mlp(blk, bx1)
    /\ apc' = "ret"
    /\ UNCHANGED <<blk, ax, ar, bx1, dn, dr, dpc, divVars, unitVars, netVars, posVars, dropVars, gateVars, frameVars>>

\* Sea_Attention_Downsample.forward on the same input
DownForward ==
    /\ dpc = "call"
    /\ dr' = Sea_Attention_Downsample_forward(dn, ax)
    /\ dpc' = "ret"
    /\ UNCHANGED <<blk, ax, ar, bx1, bout, apc, dn, divVars, unitVars, netVars, posVars, dropVars, gateVars, frameVars>>

AttnNext == AttnForward \/ AttnResidual \/ MlpResidual \/ DownForward

SpecAttn == AttnInit /\ [][AttnNext]_vars

\* C7: with stride_attention, for every H_ori, W_ori >= 1 and in both
\* branches, attention is computed at (ceil(H_ori/2), ceil(W_ori/2)) and the
\* returned tensor has spatial size (H_ori, W_ori) and dim channels, so the
\* residual add x + attn(x) is shape-legal.
C7_StrideRestoresSize ==
    (apc \in {"add", "mlp", "ret"} /\ blk.attn.stride_attention) =>
        LET b == ax.shape[1]
            h2 == CeilHalf(ax.shape[3])
            w2 == CeilHalf(ax.shape[4])
        IN  /\ ar.H_ori = ax.shape[3] /\ ar.W_ori = ax.shape[4]
            /\ ar.attn_row.shape = <<b, blk.attn.num_heads, h2, h2>>
            /\ ar.attn_column.shape = <<b, blk.attn.num_heads, w2, w2>>
            /\ ar.xx.shape = <<b, blk.attn.dh, h2, w2>>
            /\ ar.out.shape = <<b, blk.dim, ax.shape[3], ax.shape[4]>>
            /\ (apc \in {"mlp", "ret"} => bx1.shape = ax.shape)

\* an odd-sized input went through the talking-head branch with stride
C7_Witness ==
    /\ apc = "mlp" /\ blk.attn.stride_attention /\ blk.attn.talking_locality
    /\ ax.shape[3] = 5 /\ ax.shape[4] = 3
    /\ ar.xx.shape[3] = 3 /\ ar.xx.shape[4] = 2
    /\ bx1.shape = ax.shape

\* C8: the row result has shape (B, dh, H, 1), the column result
\* (B, dh, 1, W), with dh = num_heads * head dimension of the value, and
\* their sum broadcasts to (B, dh, H, W), the shape of the value v.
C8_RowColumnShapes ==
    apc \in {"add", "mlp", "ret"} =>
        LET B == ar.x.shape[1]
            H == ar.x.shape[3]
            W == ar.x.shape[4]
            dh == blk.attn.num_heads * ar.vrow.shape[4]
        IN  /\ ar.vrow.shape[4] = ar.vcolumn.shape[4]
            /\ ar.xx_row.shape = <<B, dh, H, 1>>
            /\ ar.xx_column.shape = <<B, dh, 1, W>>
            /\ ar.rowcol.shape = <<B, dh, H, W>>
            /\ ar.rowcol.shape = ar.v.shape
            /\ ar.xx.shape = ar.v.shape

\* a non-square input with several heads: row and column results differ
C8_Witness ==
    /\ apc = "add" /\ blk.attn.num_heads = 2 /\ ~blk.attn.stride_attention
    /\ ar.x.shape[3] = 4 /\ ar.x.shape[4] = 3
    /\ ar.xx_row.shape[3] = 4 /\ ar.xx_column.shape[4] = 3
    /\ ar.rowcol.shape = ar.v.shape

-----------------------------------------------------------------------------
(* Specification SpecPos: SqueezeAxialPositionalEmbedding.forward on one   *)
(* channel                                                                 *)

PosVals == {-1, 2}

\* stored embeddings: constant ones and ones with one or two non-zero entries
PosEmbeds ==
    {[m \in 1..PosEmbedLen |-> c] : c \in PosVals \cup {0}}
    \cup {[m \in 1..PosEmbedLen |-> IF m = a THEN c ELSE IF m = b THEN d ELSE 0] :
            a \in 1..PosEmbedLen, b \in 1..PosEmbedLen, c \in PosVals, d \in PosVals}

PosInit ==
    /\ DivIdle /\ UnitIdle /\ AttnIdle /\ NetIdle /\ DropIdle /\ GateIdle /\ FrameIdle
    /\ pos_embed \in PosEmbeds
    /\ \E N \in 1..MaxN, c \in {0, 1} : pe_x = [m \in 1..N |-> c]
    /\ pe_out = << >>
    /\ pe_pc = "call"

PosForward ==
    /\ pe_pc = "call"
    /\ pe_out' = SqueezeAxialPositionalEmbedding_values(pos_embed, pe_x)
    /\ pe_pc' = "ret"
    /\ UNCHANGED <<pos_embed, pe_x, divVars, unitVars, attnVars, netVars, dropVars, gateVars, frameVars>>

SpecPos == PosInit /\ [][PosForward]_vars

SeqMin(q) == CHOOSE m \in {q[k] : k \in DOMAIN q} : \A k \in DOMAIN q : m <= q[k]

SeqMax(q) == CHOOSE m \in {q[k] : k \in DOMAIN q} : \A k \in DOMAIN q : m >= q[k]

\* C9: the stored length-16 embedding is resampled to exactly the axis
\* length N, every output a value between stored values (nothing cut off,
\* no zero filled in); for N = 16 the resampled embedding is the stored one,
\* and for N = 8 output i is the average of stored 2i and 2i+1.
C9_Resample ==
    pe_pc = "ret" =>
        LET N == Len(pe_x)
            e == [d \in 1..N |-> pe_out[d] - 2 * N * pe_x[d]]
        IN  /\ Len(pe_out) = N
            /\ \A d \in 1..N : /\ e[d] >= 2 * N * SeqMin(pos_embed)
                               /\ e[d] <= 2 * N * SeqMax(pos_embed)
            /\ N = PosEmbedLen => \A d \in 1..N : e[d] = 2 * N * pos_embed[d]
            /\ N = 8 => \A d \in 1..N :
                   e[d] = N * (pos_embed[2 * (d - 1) + 1] + pos_embed[2 * (d - 1) + 2])

\* an embedding with unequal neighbours was resampled to length 8
C9_Witness ==
    /\ pe_pc = "ret" /\ Len(pe_x) = 8 /\ Len(pe_out) = 8
    /\ pos_embed[3] = 2 /\ pos_embed[4] = -1
    /\ pe_out[2] - 16 * pe_x[2] = 8

-----------------------------------------------------------------------------
(* Specification SpecDrop: drop_path on a tensor of samples                *)

DropVals == {-1, 2}

DropInit ==
    /\ DivIdle /\ UnitIdle /\ AttnIdle /\ NetIdle /\ PosIdle /\ GateIdle /\ FrameIdle
    /\ \E B \in 1..MaxDropBatch, E \in 1..MaxDropElems :
         dp_x \in [1..B -> [1..E -> DropVals]]
    /\ drop_prob \in 0..(ProbDen - 1)
    /\ training \in BOOLEAN
    /\ dp_out = << >>
    /\ dp_pc = "call"

\* DropPath.forward: drop_path(x, self.drop_prob, self.training)
DropPathForward ==
    /\ dp_pc = "call"
    /\ LET sh == rand_shape(Len(dp_x), Len(dp_x[1]))
       IN  \E rand \in [(1..sh[1]) \X (1..sh[2]) -> 0..(ProbDen - 1)] :
             dp_out' = drop_path(dp_x, drop_prob, training, rand)
    /\ dp_pc' = "ret"
    /\ UNCHANGED <<dp_x, drop_prob, training, divVars, unitVars, attnVars, netVars, posVars, gateVars, frameVars>>

SpecDrop == DropInit /\ [][DropPathForward]_vars

\* C10: drop_path returns its input unchanged when training is false or
\* drop_prob is 0; in training with 0 < drop_prob < 1 each sample of the
\* output is either all zero or the whole input sample scaled by
\* 1 / (1 - drop_prob).
C10_DropPath ==
    dp_pc = "ret" =>
        /\ (~training \/ drop_prob = 0) => dp_out = [num |-> dp_x, den |-> 1]
        /\ (training /\ drop_prob > 0) =>
             /\ dp_out.den = ProbDen - drop_prob
             /\ \A b \in DOMAIN dp_x :
                  \/ \A e \in DOMAIN dp_x[b] : dp_out.num[b][e] = 0
                  \/ \A e \in DOMAIN dp_x[b] : dp_out.num[b][e] = ProbDen * dp_x[b][e]

\* in training one sample of two was dropped and the other kept and scaled
C10_Witness ==
    /\ dp_pc = "ret" /\ training /\ drop_prob = 1
    /\ Len(dp_x) = 2 /\ Len(dp_x[1]) = 2
    /\ dp_out.num[1] = <<0, 0>>
    /\ dp_out.num[2] = <<ProbDen * dp_x[2][1], ProbDen * dp_x[2][2]>>
    /\ dp_out.den = ProbDen - 1

-----------------------------------------------------------------------------
(* Specification SpecGate: SEModule.forward and h_sigmoid.forward on values *)

GateVals == {-2, 1, 3}

GateInit ==
    /\ DivIdle /\ UnitIdle /\ AttnIdle /\ NetIdle /\ PosIdle /\ DropIdle /\ FrameIdle
    /\ \E identity \in [1..2 -> GateVals], w1 \in {-2, 1, 3}, b1 \in {-1, 0},
          w2 \in {-3, 1, 2}, b2 \in {-1, 0, 4}, k \in (-MaxGate)..MaxGate :
         gate_args = [identity |-> identity, w1 |-> w1, b1 |-> b1,
                      w2 |-> w2, b2 |-> b2, x |-> k]
    /\ se_out = << >> /\ se_pc = "call"
    /\ hs_out = << >> /\ hs_pc = "call"

SEModuleForward ==
    /\ se_pc = "call"
    /\ se_out' = SEModule_values(gate_args.identity, gate_args.w1, gate_args.b1,
                                 gate_args.w2, gate_args.b2)
    /\ se_pc' = "ret"
    /\ UNCHANGED <<gate_args, hs_out, hs_pc, divVars, unitVars, attnVars, netVars,
                   posVars, dropVars, frameVars>>

HSigmoidForward ==
    /\ hs_pc = "call"
    /\ hs_out' = h_sigmoid_forward(gate_args.x, 2)
    /\ hs_pc' = "ret"
    /\ UNCHANGED <<gate_args, se_out, se_pc, divVars, unitVars, attnVars, netVars,
                   posVars, dropVars, frameVars>>

GateNext == SEModuleForward \/ HSigmoidForward

SpecGate == GateInit /\ [][GateNext]_vars

\* the gate g of a pre-gate value num / den is in [0, 1], 0 at or below -3
\* and 1 at or above 3
GateBounded(g, num, den) ==
    /\ 0 <= g.num /\ g.num <= g.den
    /\ num <= -3 * den => g.num = 0
    /\ num >= 3 * den => g.num = g.den

\* C11: the squeeze-excite gate that multiplies the pre-gate tensor lies in
\* [0, 1] for every pre-gate value, 0 for values <= -3 and 1 for values
\* >= 3; the same holds for the h_sigmoid gate of Sea_Attention.
C11_GateRange ==
    /\ se_pc = "ret" =>
         /\ GateBounded(se_out.gate, se_out.pre, 2)
         /\ \A e \in 1..2 : se_out.out[e] = gate_args.identity[e] * se_out.gate.num
    /\ hs_pc = "ret" => GateBounded(hs_out, gate_args.x, 2)

\* a saturated squeeze-excite gate and a closed h_sigmoid gate
C11_Witness ==
    /\ se_pc = "ret" /\ hs_pc = "ret"
    /\ se_out.pre >= 6 /\ se_out.gate.num = se_out.gate.den
    /\ se_out.out[1] = se_out.gate.den * gate_args.identity[1]
    /\ gate_args.x = -7 /\ hs_out.num = 0

-----------------------------------------------------------------------------
(* Channel widths of the two attention modules (SpecAttn)                  *)

\* the widths a module's constructor stores, as the sentence states them
WidthsAsStated(m) ==
    /\ m.nh_kd = m.key_dim * m.num_heads
    /\ m.dh * m.attn_ratio[2] = m.attn_ratio[1] * m.key_dim * m.num_heads

\* the widths with the value width per head truncated to an integer
WidthsTruncated(m) ==
    /\ m.nh_kd = m.key_dim * m.num_heads
    /\ m.d * m.attn_ratio[2] <= m.attn_ratio[1] * m.key_dim
    /\ m.attn_ratio[1] * m.key_dim < (m.d + 1) * m.attn_ratio[2]
    /\ m.dh = m.d * m.num_heads
    /\ (m.attn_ratio[1] * m.key_dim) % m.attn_ratio[2] = 0
         => m.dh * m.attn_ratio[2] = m.attn_ratio[1] * m.key_dim * m.num_heads

\* the per-head shapes a forward produced from pooled q, k and v of lengths
\* Lq (queries) and Lk (keys, values)
HeadShapes(m, r, B, Lq, Lk, qq, kk, vv) ==
    /\ r.q.shape[2] = m.nh_kd /\ r.k.shape[2] = m.nh_kd /\ r.v.shape[2] = m.dh
    /\ qq.shape = <<B, m.num_heads, Lq, m.key_dim>>
    /\ kk.shape = <<B, m.num_heads, m.key_dim, Lk>>
    /\ vv.shape = <<B, m.num_heads, Lk, m.d>>

\* C12 as stated: in both attention variants nh_kd = key_dim * num_heads and
\* dh = attn_ratio * key_dim * num_heads for every accepted attn_ratio,
\* key_dim and num_heads
C12_AsStated ==
    apc # "idle" => WidthsAsStated(blk.attn) /\ WidthsAsStated(dn)

\* C12: in both attention variants nh_kd = key_dim * num_heads, so pooled q
\* and k reshape to exactly key_dim per head, and dh = int(attn_ratio *
\* key_dim) * num_heads, which is attn_ratio * key_dim * num_heads when
\* attn_ratio * key_dim is an integer
C12_HeadWidths ==
    /\ apc # "idle" => WidthsTruncated(blk.attn) /\ WidthsTruncated(dn)
    /\ apc \in {"add", "mlp", "ret"} =>
         /\ HeadShapes(blk.attn, ar, ax.shape[1], ar.x.shape[3], ar.x.shape[3],
                       ar.qrow, ar.krow, ar.vrow)
         /\ HeadShapes(blk.attn, ar, ax.shape[1], ar.x.shape[4], ar.x.shape[4],
                       ar.qcolumn, ar.kcolumn, ar.vcolumn)
    /\ dpc = "ret" =>
         /\ HeadShapes(dn, dr, ax.shape[1], CeilHalf(ax.shape[3]), ax.shape[3],
                       dr.qrow, dr.krow, dr.vrow)
         /\ HeadShapes(dn, dr, ax.shape[1], CeilHalf(ax.shape[4]), ax.shape[4],
                       dr.qcolumn, dr.kcolumn, dr.vcolumn)

\* both forwards have run for a ratio whose product with key_dim is not an
\* integer and for more than one head
C12_Witness ==
    /\ apc = "ret" /\ dpc = "ret"
    /\ blk.attn.attn_ratio = <<1, 2>> /\ blk.attn.key_dim = 3 /\ blk.attn.num_heads = 2
    /\ blk.attn.dh = 2 /\ dn.dh = 2
    /\ ar.qrow.shape[4] = 3 /\ dr.vrow.shape[4] = 1
    /\ ar.out.shape # Bad /\ dr.out.shape # Bad

-----------------------------------------------------------------------------
(* LGQuery and the downsampling attention (SpecAttn)                       *)

\* C17: for every H, W >= 1 the two branches of LGQuery both have spatial size
\* (ceil(H/2), ceil(W/2)), and in Sea_Attention_Downsample.forward the row
\* result is (B, dh, H2, 1), the column result (B, dh, 1, W2), the local value
\* branch (B, dh, H2, W2) and the output (B, dim, H2, W2), with H2 = ceil(H/2)
\* and W2 = ceil(W/2)
C17_DownsampleShapes ==
    dpc = "ret" =>
        LET B == ax.shape[1]
            H2 == CeilHalf(ax.shape[3])
            W2 == CeilHalf(ax.shape[4])
        IN  /\ dr.lg.local_q.shape = <<B, dn.dim, H2, W2>>
            /\ dr.lg.pool_q.shape = <<B, dn.dim, H2, W2>>
            /\ dr.lg.sum.shape = <<B, dn.dim, H2, W2>>
            /\ dr.q.shape = <<B, dn.nh_kd, H2, W2>>
            /\ dr.attn_row.shape = <<B, dn.num_heads, H2, ax.shape[3]>>
            /\ dr.attn_column.shape = <<B, dn.num_heads, W2, ax.shape[4]>>
            /\ dr.xx_row.shape = <<B, dn.dh, H2, 1>>
            /\ dr.xx_column.shape = <<B, dn.dh, 1, W2>>
            /\ dr.v_local.shape = <<B, dn.dh, H2, W2>>
            /\ dr.xx.shape = <<B, dn.dh, H2, W2>>
            /\ dr.out.shape = <<B, dn.dim, H2, W2>>

\* a downsampling forward has returned for an odd height and an even width
C17_Witness ==
    /\ dpc = "ret"
    /\ ax.shape[3] = 5 /\ ax.shape[4] = 4
    /\ dr.lg.pool_q.shape[3] = 3 /\ dr.lg.local_q.shape[4] = 2
    /\ dr.out.shape = <<ax.shape[1], dn.dim, 3, 2>>

-----------------------------------------------------------------------------
(* The output stage of Sea_Attention.forward (SpecAttn)                    *)

\* op is applied somewhere in the data flow e
RECURSIVE Occurs(_, _)
Occurs(op, e) == e[1] = op \/ \E n \in 2..Len(e) : Occurs(op, e[n])

\* the attention of the Block has returned
AttnReturned == apc \in {"add", "mlp", "ret"}

\* C14: with stride_attention, the plain branch upsamples to (H_ori, W_ori)
\* after self.proj, the talking-head branch upsamples the sum with the local
\* value branch and projects afterwards; without stride_attention no upsample
\* occurs in either branch
C14_UpsampleOrder ==
    AttnReturned =>
        LET a == blk.attn
            full == <<ax.shape[1], a.dim, ar.H_ori, ar.W_ori>>
        IN  /\ a.stride_attention /\ ~a.talking_locality =>
                 /\ ar.out.expr = <<"interpolate", ar.tail.product.expr>>
                 /\ Occurs("proj", ar.tail.product.expr)
                 /\ ~Occurs("interpolate", ar.tail.product.expr)
                 /\ ar.out.shape = full
            /\ a.stride_attention /\ a.talking_locality =>
                 /\ ar.tail.sum.expr = <<"add", ar.xx.expr, ar.detail.expr>>
                 /\ ~Occurs("proj", ar.tail.sum.expr)
                 /\ ar.tail.restored.expr = <<"interpolate", ar.tail.sum.expr>>
                 /\ ar.tail.restored.shape = <<ax.shape[1], a.dh, ar.H_ori, ar.W_ori>>
                 /\ ar.out.expr = <<"proj", <<"act", ar.tail.restored.expr>>>>
                 /\ ar.out.shape = full
            /\ ~a.stride_attention =>
                 /\ ~Occurs("interpolate", ar.out.expr)
                 /\ ar.out.shape = full

\* a strided talking-head attention has returned for an odd-sized input
C14_Witness ==
    /\ AttnReturned
    /\ blk.attn.stride_attention /\ blk.attn.talking_locality
    /\ ar.H_ori = 5 /\ ar.W_ori = 3
    /\ ar.tail.sum.shape[3] = 3 /\ ar.tail.sum.shape[4] = 2
    /\ ar.out.expr[1] = "proj" /\ ar.out.shape[3] = 5

\* C15 as stated: in the strided plain branch the upsample comes before the
\* gated multiply, which therefore happens at (H_ori, W_ori)
C15_AsStated ==
    AttnReturned /\ blk.attn.stride_attention /\ ~blk.attn.talking_locality =>
        /\ ar.out.expr[1] = "mul"
        /\ Occurs("interpolate", ar.out.expr[2])
        /\ ar.tail.product.shape = <<ax.shape[1], blk.attn.dim, ar.H_ori, ar.W_ori>>

\* C15: in the strided plain branch the gate of the projection is multiplied
\* with the detail signal at the reduced resolution (ceil(H_ori/2),
\* ceil(W_ori/2)) and the product is then upsampled to (H_ori, W_ori)
C15_MultiplyThenUpsample ==
    AttnReturned /\ blk.attn.stride_attention /\ ~blk.attn.talking_locality =>
        LET a == blk.attn
            B == ax.shape[1]
            half == <<B, a.dim, CeilHalf(ar.H_ori), CeilHalf(ar.W_ori)>>
        IN  /\ ar.tail.proj.expr = <<"proj", <<"act", ar.xx.expr>>>>
            /\ ar.tail.proj.shape = half
            /\ ar.detail.shape = half
            /\ ar.tail.product.expr = <<"mul", <<"sigmoid", ar.tail.proj.expr>>, ar.detail.expr>>
            /\ ar.tail.product.shape = half
            /\ ar.out.expr = <<"interpolate", ar.tail.product.expr>>
            /\ ar.out.shape = <<B, a.dim, ar.H_ori, ar.W_ori>>

\* a strided plain attention has returned for an input larger than its
\* reduced resolution
C15_Witness ==
    /\ AttnReturned
    /\ blk.attn.stride_attention /\ ~blk.attn.talking_locality
    /\ ar.H_ori = 4 /\ ar.W_ori = 5
    /\ ar.tail.product.shape[3] = 2 /\ ar.tail.product.shape[4] = 3
    /\ ar.out.shape[3] = 4 /\ ar.out.shape[4] = 5

\* the tensor the plain branch returns, before any restoring upsample
PlainCore == IF blk.attn.stride_attention THEN ar.out.expr[2] ELSE ar.out.expr

\* the data flow of the detail-enhancement branch
DetailExpr == <<"pwconv", <<"act", <<"dwconv", <<"cat", ar.q.expr, ar.k.expr, ar.v.expr>>>>>>>>

\* the data flow of the attention output: v plus the row and column results
AttentionExpr == <<"add", ar.v.expr, <<"add", ar.xx_row.expr, ar.xx_column.expr>>>>

\* C16 as stated: the plain branch gates the detail signal and returns the
\* sum of the attention output and the gated detail term
C16_AsStated ==
    AttnReturned /\ ~blk.attn.talking_locality =>
        /\ PlainCore[1] = "add"
        /\ Occurs("sigmoid", PlainCore)

\* C16: the plain branch concatenates q, k, v, applies the depthwise
\* convolution and the pointwise projection, and returns the product of that
\* detail signal with the hard-sigmoid gate of the projected attention output
\* (upsampled when stride_attention is set); nothing is added after the gate
C16_GateTimesDetail ==
    AttnReturned /\ ~blk.attn.talking_locality =>
        /\ ar.detail.expr = DetailExpr
        /\ ar.detail.shape = <<ax.shape[1], blk.attn.dim, ar.x.shape[3], ar.x.shape[4]>>
        /\ ar.xx.expr = AttentionExpr
        /\ PlainCore = <<"mul", <<"sigmoid", <<"proj", <<"act", AttentionExpr>>>>>>, DetailExpr>>
        /\ ar.out.shape = ax.shape

\* a plain attention without stride has returned the gated product
C16_Witness ==
    /\ AttnReturned
    /\ ~blk.attn.talking_locality /\ ~blk.attn.stride_attention
    /\ ar.out.expr[1] = "mul" /\ ar.out.expr[2][1] = "sigmoid"
    /\ ar.out.expr[3][1] = "pwconv"
    /\ ar.out.shape = ax.shape /\ ax.shape[3] = 3

-----------------------------------------------------------------------------
(* Specification SpecFrame: forward calls in inference mode against one    *)
(* shared set of parameters.  A call takes one row of one channel through  *)
(* the two places where a forward touches stored or in-place state: the    *)
(* positional embedding (a parameter) and h_sigmoid (an in-place ReLU6).   *)

MaxCalls == 2                   \* forward calls started by each caller

FrameCallers == {1, 2}

FrameInputs == {[m \in 1..N |-> c] : N \in {2, 3}, c \in {-4, 0}}

FramePosEmbeds ==
    {[m \in 1..PosEmbedLen |-> -1], [m \in 1..PosEmbedLen |-> 2],
     [m \in 1..PosEmbedLen |-> IF m = 1 THEN 2 ELSE 0]}

\* a forward that keeps the resampled embedding on the module
pos_embed_Cached(stored, resampled) == resampled

\* self.pos_embed after SqueezeAxialPositionalEmbedding.forward: line 224
\* rebinds the local x only, the parameter is read and not assigned
pos_embed_after_forward(stored, resampled) == stored

\* a caller about to run forward on the row xrow for the k-th time
FrameEnter(xrow, k) ==
    [pc |-> "pos", n |-> k, x |-> xrow, y |-> << >>, t |-> << >>, out |-> << >>]

FrameInit ==
    /\ DivIdle /\ UnitIdle /\ AttnIdle /\ NetIdle /\ PosIdle /\ DropIdle /\ GateIdle
    /\ fr_pos \in FramePosEmbeds
    /\ \E x1 \in FrameInputs, x2 \in FrameInputs :
         fr_calls = [c \in FrameCallers |-> FrameEnter(IF c = 1 THEN x1 ELSE x2, 1)]

FrameOthers == <<divVars, unitVars, attnVars, netVars, posVars, dropVars, gateVars>>

\* x = x + F.interpolate(self.pos_embed, size=(N), ...): numerators over 2N
FramePosEmbed(c) ==
    /\ fr_calls[c].pc = "pos"
    /\ fr_calls' = [fr_calls EXCEPT ![c].pc = "add3",
                      ![c].y = SqueezeAxialPositionalEmbedding_values(fr_pos, fr_calls[c].x)]
    /\ fr_pos' = pos_embed_after_forward(fr_pos,
                                         interpolate_linear(fr_pos, Len(fr_calls[c].x)))
    /\ UNCHANGED FrameOthers

\* h_sigmoid.forward, x + 3: a new tensor
FrameAdd3(c) ==
    /\ fr_calls[c].pc = "add3"
    /\ fr_calls' = [fr_calls EXCEPT ![c].pc = "relu6",
                      ![c].t = [d \in DOMAIN fr_calls[c].y |->
                                  fr_calls[c].y[d] + 3 * 2 * Len(fr_calls[c].x)]]
    /\ UNCHANGED <<fr_pos, FrameOthers>>

\* self.relu(.) with inplace=True: overwrites the tensor x + 3 made
FrameReLU6(c) ==
    /\ fr_calls[c].pc = "relu6"
    /\ fr_calls' = [fr_calls EXCEPT ![c].pc = "div6",
                      ![c].t = [d \in DOMAIN fr_calls[c].t |->
                                  ReLU6(fr_calls[c].t[d], 2 * Len(fr_calls[c].x))]]
    /\ UNCHANGED <<fr_pos, FrameOthers>>

\* ... / 6 and return
FrameDiv6(c) ==
    /\ fr_calls[c].pc = "div6"
    /\ fr_calls' = [fr_calls EXCEPT ![c].pc = "ret",
                      ![c].out = [num |-> fr_calls[c].t,
                                  den |-> 6 * 2 * Len(fr_calls[c].x)]]
    /\ UNCHANGED <<fr_pos, FrameOthers>>

\* the caller runs forward again, on any input
FrameCall(c) ==
    /\ fr_calls[c].pc = "ret"
    /\ fr_calls[c].n < MaxCalls
    /\ \E xrow \in FrameInputs :
         fr_calls' = [fr_calls EXCEPT ![c] = FrameEnter(xrow, fr_calls[c].n + 1)]
    /\ UNCHANGED <<fr_pos, FrameOthers>>

FrameNext ==
    \E c \in FrameCallers :
        FramePosEmbed(c) \/ FrameAdd3(c) \/ FrameReLU6(c) \/ FrameDiv6(c) \/ FrameCall(c)

SpecFrame == FrameInit /\ [][FrameNext]_vars

\* what one forward computes from the parameter and its own input alone
FrameResult(stored, xrow) ==
    LET N == Len(xrow)
        yy == SqueezeAxialPositionalEmbedding_values(stored, xrow)
    IN  [num |-> [d \in 1..N |-> h_sigmoid_forward(yy[d], 2 * N).num], den |-> 12 * N]

\* every returned output is the function of the parameter and the call's own
\* input, so equal inputs have equal outputs
FrameDeterministic ==
    /\ \A c \in FrameCallers :
         fr_calls[c].pc = "ret" => fr_calls[c].out = FrameResult(fr_pos, fr_calls[c].x)
    /\ \A c1 \in FrameCallers, c2 \in FrameCallers :
         fr_calls[c1].pc = "ret" /\ fr_calls[c2].pc = "ret" /\ fr_calls[c1].x = fr_calls[c2].x
           => fr_calls[c1].out = fr_calls[c2].out

\* C13: no step of any forward call, in any interleaving of calls on
\* different inputs, changes a parameter, and the output of a call depends
\* only on the parameters and its own input
C13_ParametersReadOnly ==
    /\ [][fr_pos' = fr_pos]_vars
    /\ []FrameDeterministic

\* caller 1 has returned from its second forward while caller 2, on an input
\* of another length, has returned from its first; their outputs differ
C13_Witness ==
    /\ fr_calls[1].pc = "ret" /\ fr_calls[1].n = 2
    /\ fr_calls[2].pc = "ret" /\ fr_calls[2].n = 1
    /\ Len(fr_calls[1].x) = 2 /\ Len(fr_calls[2].x) = 3
    /\ fr_calls[1].out.num = <<0, 0>> /\ fr_calls[2].out.num[1] > 0
    /\ fr_pos[1] = 2 /\ fr_pos[2] = 0

-----------------------------------------------------------------------------
(* The classifier head (Spec)                                              *)

\* C18: the logit vector returned by SeaFormer.forward is 1000 wide whatever
\* num_classes the constructor was given: num_classes is stored, the head is
\* sized without it, so the output shape depends on the batch size alone
C18_LogitWidth ==
    /\ pc # "idle" => /\ net.num_classes \in NumClassesArgs
                      /\ net.linear.out_features = 1000
    /\ pc = "done" => x_fwd = <<input[1], 1000>>

\* a model built with num_classes = 10 returned 1000 logits per image
C18_Witness ==
    /\ pc = "done" /\ net.name = "SeaFormer_T" /\ net.num_classes = 10
    /\ input[1] = 2 /\ x_fwd = <<2, 1000>>

====
